---- MODULE Spec2Model ----
(***************************************************************************)
(* A model of the reactive store binding layer of                          *)
(* src/lib/shared/atomMixin.ts: the AtomMixin class (one component         *)
(* instance bound to one registry), the Result-to-promise bridge           *)
(* useAtomPromise, and the pure dispatcher matchResult.                    *)
(*                                                                         *)
(* The registry itself (@effect-atom/atom) is a library the mixin calls.   *)
(* It appears here only through the calls the mixin makes on it:           *)
(* subscribe returns a handle, a handler of a live subscription is         *)
(* invoked when the atom's value changes, calling the handle ends the      *)
(* subscription, refresh and mount are recorded as calls.                  *)
(***************************************************************************)
EXTENDS Integers, Sequences, FiniteSets, TLC

(* ------------------------------ bounds -------------------------------- *)

\* subscriptions of the instance that the registry holds at one time
MaxSubs == 3

\* length of the key list passed to invalidate
MaxKeys == 1

\* promises created by useAtomPromise in one behaviour
MaxPromises == 1

\* changes of the Result atom's value in one behaviour
MaxChanges == 2

Atoms == {"a", "b", "c"}

\* the atoms the lifecycle specification binds and accesses
LifeAtoms == {"a", "b"}

\* the asynchronous (Result-valued) atom handed to useAtomPromise
ResultAtom == "r"

AllAtoms == Atoms \cup {ResultAtom}

Tags == {"x", "y"}

Values == {0, 1}

\* property keys of the decorated fields, in declaration order
FieldKeys == <<"f1", "f2">>

TagLists == {<<>>, <<"x">>, <<"y">>}

(* ------------------------------ state --------------------------------- *)

VARIABLES
  bindings,           \* ctor[ATOM_PROPERTY_KEYS]: the class-level binding list
  attached,           \* the instance is between connectedCallback and disconnectedCallback
  subs,               \* every registry.subscribe call of the instance, by handle
  atomSubscriptions,  \* this[ATOM_SUBSCRIPTIONS]: atom -> handle (0: no entry)
  reactivityKeys,     \* this[REACTIVITY_KEYS]: key -> set of atoms
  cache,              \* registry cache of the writable atoms
  result,             \* registry cache of the Result atom
  fields,             \* the decorated instance fields
  invoked,            \* handles whose handler ran in the last step
  refreshed,          \* registry.refresh calls of the last step, per atom
  mounts,             \* the atoms registry.mount was called for (its release is discarded)
  promises,           \* the promises returned by useAtomPromise
  changes,            \* number of changes of the Result atom so far
  lastOp,             \* the operation performed by the last step
  mResult,            \* matchResult: the result argument
  mOptions,           \* matchResult: the options argument
  mReturn,            \* matchResult: what the call returned and which handlers it invoked
  classOf,            \* the class each component instance is an instance of
  classRegistry,      \* the registry argument each class passed to AtomMixin
  classBindings,      \* the binding list of each class
  caches,             \* the cache of each registry: its value of the shared atom
  els,                \* the component instances
  refreshes,          \* registry.refresh calls of the last step, per registry and atom
  sharedOp,           \* the operation a component or a registry performed last
  count,              \* the registry's value of each counter atom
  hook,               \* the value useAtom returned for each counter atom, with its setter
  run,                \* per counter atom: the value last set outright, and the
                      \* number of increments through the setter since
  calls,              \* setter calls so far
  effectRun,          \* the run of the function atom's effect: idle, running or
                      \* done, and the input it was triggered with
  todos,              \* TodoService: the Ref holding the todo list
  nextId,             \* TodoService: the ids crypto.randomUUID has handed out
  todoOp,             \* TodoService: the last call and how it ended
  kv,                 \* ApiKeyLoaderService: the key-value store (localStorage)
  keyOp               \* ApiKeyLoaderService: the last call and how it ended

vars == <<bindings, attached, subs, atomSubscriptions, reactivityKeys, cache,
          result, fields, invoked, refreshed, mounts, promises,
          changes, lastOp, mResult, mOptions, mReturn,
          classOf, classRegistry, classBindings, caches, els, refreshes, sharedOp,
          count, hook, run, calls, effectRun, todos, nextId, todoOp, kv, keyOp>>

sharedVars == <<classOf, classRegistry, classBindings, caches, els, refreshes,
                sharedOp>>

counterVars == <<count, hook, run, calls>>

asyncVars == <<effectRun>>

serviceVars == <<todos, nextId, todoOp, kv, keyOp>>

\* what the actions of the one-instance mixin model leave alone
restVars == <<sharedVars, counterVars, asyncVars, serviceVars>>

mixinVars == <<bindings, attached, subs, atomSubscriptions, reactivityKeys,
               cache, result, fields, invoked, refreshed, mounts,
               promises, changes, lastOp>>

matchVars == <<mResult, mOptions, mReturn>>

(* ------------------------------ Result -------------------------------- *)

Errors == {[err |-> "e1"], [err |-> "e2"]}

\* Cause<E>: failures is what Cause.failures(cause) yields (empty for a defect)
Causes == {[failures |-> <<[err |-> "e1"]>>],
           [failures |-> <<[err |-> "e2"], [err |-> "e1"]>>],
           [failures |-> <<>>]}

NoCause == [failures |-> <<>>]

Initial(w) == [tag |-> "Initial", waiting |-> w, value |-> 0, cause |-> NoCause]

Success(v, w) == [tag |-> "Success", waiting |-> w, value |-> v, cause |-> NoCause]

Failure(c, w) == [tag |-> "Failure", waiting |-> w, value |-> 0, cause |-> c]

Results == {Initial(w) : w \in BOOLEAN}
             \cup {Success(v, w) : v \in Values, w \in BOOLEAN}
             \cup {Failure(c, w) : c \in Causes, w \in BOOLEAN}

isInitial(r) == r.tag = "Initial"

isSuccess(r) == r.tag = "Success"

isFailure(r) == r.tag = "Failure"

isWaiting(r) == r.waiting

\* pipe(Chunk.head(Cause.failures(cause)), Option.getOrElse(() => cause))
FirstFailure(c) == IF Len(c.failures) > 0 THEN Head(c.failures) ELSE c

(* ----------------------------- registry ------------------------------ *)

Value(atom) == IF atom = ResultAtom THEN result ELSE cache[atom]

Handles == 1..MaxSubs

\* a handle no subscription uses
Free == [kind |-> "free"]

\* a subscription whose unsubscribe function was called is dropped by the
\* registry; the state after the call still shows it, the next step does not.
\* A bridge subscription stays: its promise names it.
Purge(s) ==
  [id \in Handles |->
     IF s[id] # Free /\ s[id].kind # "bridge" /\ s[id].released > 0
       THEN Free ELSE s[id]]

HasRoom(s, n) == Cardinality({id \in Handles : Purge(s)[id] = Free}) >= n

NewHandle(s) == CHOOSE id \in Handles :
                  s[id] = Free /\ \A other \in Handles : s[other] = Free => id <= other

\* registry.subscribe(atom, handler): a new subscription under handle NewHandle(s);
\* fresh: the instance is attached when it subscribes; tags: the reactivity
\* keys the instance registers the atom under when it makes the subscription
RegistrySubscribe(s, atom, kind, key, fresh) ==
  [s EXCEPT ![NewHandle(s)] =
     [atom |-> atom, kind |-> kind, key |-> key, released |-> 0, fresh |-> fresh,
      tags |-> <<>>]]

\* the subscription under handle id came with _registerReactivityKeys(atom, keys)
Tagged(s, id, keys) == [s EXCEPT ![id].tags = keys]

\* calling the function registry.subscribe returned
Unsubscribe(s, id) == [s EXCEPT ![id].released = @ + 1]

Live(s, id) == s[id] # Free /\ s[id].released = 0

\* the subscriptions whose handler the registry invokes when atom changes
Listeners(s, atom) == {id \in Handles : Live(s, id) /\ s[id].atom = atom}

\* the handles that step s -> t created
Created(s, t) == {id \in Handles : s[id] = Free /\ t[id] # Free}

NoOp == [op |-> "none", atom |-> "none", keys |-> <<>>, wasSubscribed |-> FALSE,
         created |-> {}]

\* the record of an operation: what it was called with, whether the instance
\* had the atom in its table before, and the handles it created
Op(name, atom, keys, created) ==
  [op |-> name, atom |-> atom, keys |-> keys,
   wasSubscribed |-> IF atom \in AllAtoms THEN atomSubscriptions[atom] # 0 ELSE FALSE,
   created |-> created]

(* ------------------------- AtomMixin: helpers ------------------------- *)

EmptySubscriptions == [a \in AllAtoms |-> 0]

EmptyReactivityKeys == [k \in Tags |-> {}]

Unset == [set |-> FALSE]

RECURSIVE RegisterReactivityKeys(_, _, _)
RegisterReactivityKeys(rk, atom, keys) ==
  IF keys = <<>> THEN rk
  ELSE RegisterReactivityKeys(
         [rk EXCEPT ![Head(keys)] = @ \cup {atom}], atom, Tail(keys))

IsSubscribed(atom) == atomSubscriptions[atom] # 0

\* updateProperty(key, value): Reflect.set and requestUpdate(key)
UpdateProperty(f, key, value) == [f EXCEPT ![key] = [set |-> TRUE, v |-> value]]

\* a faulty subscribeToAtom that subscribes without immediate: true
SubscribeToAtomLater(st, b) ==
  LET id == NewHandle(st.subs)
  IN  [subs |-> Tagged(RegistrySubscribe(st.subs, b.atom, "field", b.key, TRUE),
                      id, b.reactivityKeys),
       atomSubscriptions |-> [st.atomSubscriptions EXCEPT ![b.atom] = id],
       reactivityKeys |->
         IF Len(b.reactivityKeys) > 0
           THEN RegisterReactivityKeys(st.reactivityKeys, b.atom, b.reactivityKeys)
           ELSE st.reactivityKeys,
       fields |-> st.fields,
       invoked |-> st.invoked]

\* subscribeToAtom for one entry of the binding list; st is the instance so far
SubscribeToAtom(st, b) ==
  LET id == NewHandle(st.subs)
  IN  [subs |-> Tagged(RegistrySubscribe(st.subs, b.atom, "field", b.key, TRUE),
                      id, b.reactivityKeys),
       atomSubscriptions |-> [st.atomSubscriptions EXCEPT ![b.atom] = id],
       reactivityKeys |->
         IF Len(b.reactivityKeys) > 0
           THEN RegisterReactivityKeys(st.reactivityKeys, b.atom, b.reactivityKeys)
           ELSE st.reactivityKeys,
       fields |-> UpdateProperty(st.fields, b.key, Value(b.atom)),
       invoked |-> st.invoked \cup {id}]

RECURSIVE SubscribeToAtoms(_, _)
SubscribeToAtoms(bs, st) ==
  IF bs = <<>> THEN st
  ELSE SubscribeToAtoms(Tail(bs), SubscribeToAtom(st, Head(bs)))

\* HashMap.forEach(this[ATOM_SUBSCRIPTIONS], (unsubscribe) => unsubscribe())
UnsubscribeFromAtoms(s, table) ==
  [id \in Handles |->
     IF \E a \in AllAtoms : table[a] = id THEN Unsubscribe(s, id)[id] ELSE s[id]]

\* a faulty _autoSubscribe that subscribes but does not record the handle
AutoSubscribeNoStore(s, table, atom) ==
  IF table[atom] = 0
    THEN [subs |-> RegistrySubscribe(s, atom, "auto", "none", attached),
          table |-> table,
          invoked |-> {NewHandle(s)}]
    ELSE [subs |-> s, table |-> table, invoked |-> {}]

\* _autoSubscribe(atom): the subscriptions and the table afterwards
AutoSubscribe(s, table, atom) ==
  IF table[atom] = 0
    THEN [subs |-> RegistrySubscribe(s, atom, "auto", "none", attached),
          table |-> [table EXCEPT ![atom] = NewHandle(s)],
          invoked |-> {NewHandle(s)}]
    ELSE [subs |-> s, table |-> table, invoked |-> {}]

NoRefresh == [a \in AllAtoms |-> 0]

\* a faulty invalidate that refreshes the atoms of every key of the index
InvalidateKeysAll(rk, keys, done) ==
  [a \in AllAtoms |->
     IF keys # <<>> /\ \E k \in Tags : a \in rk[k] THEN 1 ELSE 0]

RECURSIVE InvalidateKeys(_, _, _)
InvalidateKeys(rk, keys, done) ==
  IF keys = <<>> THEN done
  ELSE InvalidateKeys(rk, Tail(keys),
         [a \in AllAtoms |-> done[a] + (IF a \in rk[Head(keys)] THEN 1 ELSE 0)])

(* ------------------------ AtomMixin: lifecycle ------------------------ *)

\* the binding lists atomProperty can build over atoms as, with tag lists ts:
\* one entry per decorated field, in declaration order
BindingLists(as, ts) ==
  {<<>>}
  \cup {<<[key |-> FieldKeys[1], atom |-> a, reactivityKeys |-> t]>> :
          a \in as, t \in ts}
  \cup {<<[key |-> FieldKeys[1], atom |-> a1, reactivityKeys |-> t1],
          [key |-> FieldKeys[2], atom |-> a2, reactivityKeys |-> t2]>> :
          a1 \in as, t1 \in ts, a2 \in as, t2 \in ts}

KeyLists == UNION {[1..n -> Tags] : n \in 0..MaxKeys}

\* the subscriptions made before this attach are no longer of the current period
Age(s) ==
  [id \in Handles |-> IF s[id] = Free THEN Free ELSE [s[id] EXCEPT !.fresh = FALSE]]

\* connectedCallback: _subscribeToAtoms
Attach ==
  /\ ~attached
  /\ HasRoom(subs, Len(bindings))
  /\ LET st == SubscribeToAtoms(bindings,
                 [subs |-> Age(Purge(subs)),
                  atomSubscriptions |-> atomSubscriptions,
                  reactivityKeys |-> reactivityKeys,
                  fields |-> fields,
                  invoked |-> {}])
     IN  /\ subs' = st.subs
         /\ atomSubscriptions' = st.atomSubscriptions
         /\ reactivityKeys' = st.reactivityKeys
         /\ fields' = st.fields
         /\ invoked' = st.invoked
  /\ attached' = TRUE
  /\ refreshed' = NoRefresh
  /\ lastOp' = Op("attach", "none", <<>>, Created(Purge(subs), subs'))
  /\ UNCHANGED <<bindings, cache, result, mounts, promises, changes, matchVars,
                 restVars>>

\* disconnectedCallback: _unsubscribeFromAtoms
Detach ==
  /\ attached
  /\ attached' = FALSE
  /\ subs' = UnsubscribeFromAtoms(Purge(subs), atomSubscriptions)
  /\ atomSubscriptions' = EmptySubscriptions
  /\ reactivityKeys' = EmptyReactivityKeys
  /\ invoked' = {}
  /\ refreshed' = NoRefresh
  /\ lastOp' = Op("detach", "none", <<>>, {})
  /\ UNCHANGED <<bindings, cache, result, fields, mounts, promises, changes,
                 matchVars, restVars>>

(* ------------------------ AtomMixin: accessors ------------------------ *)

\* what useAtom, useAtomValue, useAtomSet and useAtomRefresh do to the instance
Accessor(name, atom) ==
  /\ IsSubscribed(atom) \/ HasRoom(subs, 1)
  /\ LET r == AutoSubscribe(Purge(subs), atomSubscriptions, atom)
     IN  /\ subs' = r.subs
         /\ atomSubscriptions' = r.table
         /\ invoked' = r.invoked
  /\ refreshed' = NoRefresh
  /\ lastOp' = Op(name, atom, <<>>, Created(Purge(subs), subs'))
  /\ UNCHANGED <<bindings, attached, reactivityKeys, cache, result, fields,
                 mounts, promises, changes, matchVars, restVars>>

UseAtom(atom) == Accessor("useAtom", atom)

UseAtomValue(atom) == Accessor("useAtomValue", atom)

UseAtomSet(atom) == Accessor("useAtomSet", atom)

UseAtomRefresh(atom) == Accessor("useAtomRefresh", atom)

UseAtomMount(atom, keys) ==
  /\ IsSubscribed(atom) \/ HasRoom(subs, 1)
  /\ IF ~IsSubscribed(atom)
       THEN /\ subs' = Tagged(RegistrySubscribe(Purge(subs), atom, "mount", "none",
                                                 attached),
                               NewHandle(Purge(subs)), keys)
            /\ atomSubscriptions' =
                 [atomSubscriptions EXCEPT ![atom] = NewHandle(Purge(subs))]
            /\ invoked' = {NewHandle(Purge(subs))}
            /\ reactivityKeys' =
                 IF Len(keys) > 0
                   THEN RegisterReactivityKeys(reactivityKeys, atom, keys)
                   ELSE reactivityKeys
            /\ mounts' = [mounts EXCEPT ![atom] = TRUE]
       ELSE /\ subs' = Purge(subs)
            /\ invoked' = {}
            /\ UNCHANGED <<atomSubscriptions, reactivityKeys, mounts>>
  /\ refreshed' = NoRefresh
  /\ lastOp' = Op("useAtomMount", atom, keys, Created(Purge(subs), subs'))
  /\ UNCHANGED <<bindings, attached, cache, result, fields, promises, changes,
                 matchVars, restVars>>

Invalidate(keys) ==
  /\ refreshed' = InvalidateKeys(reactivityKeys, keys, NoRefresh)
  /\ subs' = Purge(subs)
  /\ invoked' = {}
  /\ lastOp' = Op("invalidate", "none", keys, {})
  /\ UNCHANGED <<bindings, attached, atomSubscriptions, reactivityKeys,
                 cache, result, fields, mounts, promises, changes, matchVars, restVars>>

\* the handlers of the field subscriptions among ids run with value v
RunFieldHandlers(s, f, ids, v) ==
  [k \in DOMAIN f |->
     IF \E id \in ids : s[id].kind = "field" /\ s[id].key = k
       THEN [set |-> TRUE, v |-> v] ELSE f[k]]

\* globalRegistry.set(atom, v), as the setters of useAtom and useAtomSet call it
RegistrySet(atom, v) ==
  /\ v # cache[atom]
  /\ cache' = [cache EXCEPT ![atom] = v]
  /\ subs' = Purge(subs)
  /\ invoked' = Listeners(subs, atom)
  /\ fields' = RunFieldHandlers(subs, fields, Listeners(subs, atom), v)
  /\ refreshed' = NoRefresh
  /\ lastOp' = Op("set", atom, <<>>, {})
  /\ UNCHANGED <<bindings, attached, atomSubscriptions, reactivityKeys,
                 result, mounts, promises, changes, matchVars, restVars>>

(* --------------------------- useAtomPromise --------------------------- *)

Pending == [kind |-> "pending"]

Resolved(v) == [kind |-> "resolved", value |-> v]

Rejected(e) == [kind |-> "rejected", error |-> e]

\* resolve and reject of a promise act only while it is pending
Settle(p, outcome) == IF p.outcome = Pending THEN [p EXCEPT !.outcome = outcome] ELSE p

\* a faulty checkAndResolve that does not honour suspendOnWaiting
CheckAndResolveNoSuspend(p, r) ==
  IF isInitial(r) THEN p
  ELSE IF isSuccess(r) THEN Settle(p, Resolved(r.value))
  ELSE IF isFailure(r) THEN Settle(p, Rejected(FirstFailure(r.cause)))
  ELSE p

CheckAndResolve(p, r) ==
  IF isInitial(r) THEN p
  ELSE IF p.suspendOnWaiting /\ isWaiting(r) THEN p
  ELSE IF isSuccess(r) THEN Settle(p, Resolved(r.value))
  ELSE IF isFailure(r) THEN Settle(p, Rejected(FirstFailure(r.cause)))
  ELSE p

\* checkAndResolve is handed r: seen records every result it was handed
Observe(p, r) == [CheckAndResolve(p, r) EXCEPT !.seen = Append(@, r)]

UseAtomPromise(suspendOnWaiting) ==
  /\ Len(promises) < MaxPromises
  /\ HasRoom(subs, IF IsSubscribed(ResultAtom) THEN 1 ELSE 2)
  /\ LET r  == AutoSubscribe(Purge(subs), atomSubscriptions, ResultAtom)
         p  == [outcome |-> Pending, suspendOnWaiting |-> suspendOnWaiting,
                sub |-> NewHandle(r.subs), timerFired |-> FALSE, seen |-> <<>>]
     IN  /\ subs' = RegistrySubscribe(r.subs, ResultAtom, "bridge", "none", attached)
         /\ atomSubscriptions' = r.table
         /\ invoked' = r.invoked
         /\ promises' = Append(promises, Observe(p, result))
  /\ refreshed' = NoRefresh
  /\ lastOp' = Op("useAtomPromise", ResultAtom, <<>>, Created(Purge(subs), subs'))
  /\ UNCHANGED <<bindings, attached, reactivityKeys, cache, result, fields,
                 mounts, changes, matchVars, restVars>>

\* a faulty timer that tears the bridge down only while the promise is pending
TimeoutWhilePending(i) ==
  /\ ~promises[i].timerFired
  /\ subs' = IF promises[i].outcome = Pending
               THEN Unsubscribe(Purge(subs), promises[i].sub) ELSE Purge(subs)
  /\ promises' = [promises EXCEPT ![i].timerFired = TRUE]
  /\ invoked' = {}
  /\ refreshed' = NoRefresh
  /\ lastOp' = Op("timeout", ResultAtom, <<>>, {})
  /\ UNCHANGED <<bindings, attached, atomSubscriptions, reactivityKeys, cache,
                 result, fields, mounts, changes, matchVars, restVars>>

\* setTimeout(unsubscribe, 30000) of promise i fires
Timeout(i) ==
  /\ ~promises[i].timerFired
  /\ subs' = Unsubscribe(Purge(subs), promises[i].sub)
  /\ promises' = [promises EXCEPT ![i].timerFired = TRUE]
  /\ invoked' = {}
  /\ refreshed' = NoRefresh
  /\ lastOp' = Op("timeout", ResultAtom, <<>>, {})
  /\ UNCHANGED <<bindings, attached, atomSubscriptions, reactivityKeys, cache,
                 result, fields, mounts, changes, matchVars, restVars>>

\* the registry's value of the Result atom becomes r; it notifies the listeners
ResultChange(r) ==
  /\ changes < MaxChanges
  /\ r # result
  /\ result' = r
  /\ changes' = changes + 1
  /\ invoked' = Listeners(subs, ResultAtom)
  /\ fields' = RunFieldHandlers(subs, fields, Listeners(subs, ResultAtom), r)
  /\ promises' = [i \in DOMAIN promises |->
                    IF Live(subs, promises[i].sub)
                      THEN Observe(promises[i], r) ELSE promises[i]]
  /\ refreshed' = NoRefresh
  /\ lastOp' = Op("change", ResultAtom, <<>>, {})
  /\ subs' = Purge(subs)
  /\ UNCHANGED <<bindings, attached, atomSubscriptions, reactivityKeys,
                 cache, mounts, matchVars, sharedVars, counterVars,
                 serviceVars>>

(* ----------------------------- matchResult ---------------------------- *)

\* a handler of MatchResultOptions: absent, returning null, or returning output
HandlerKinds == {"absent", "null", "out"}

OptionSets ==
  [onInitial : HandlerKinds, onWaiting : HandlerKinds,
   onSuccess : {"null", "out"}, onFailure : HandlerKinds]

Null == [null |-> TRUE]

None == [some |-> FALSE]

Some(v) == [some |-> TRUE, v |-> v]

FromNullable(v) == IF v = Null THEN None ELSE Some(v)

\* what handler h of options returns when called with arg
Call(options, h, arg) ==
  IF options[h] = "null" THEN Null ELSE [by |-> h, arg |-> arg]

MatchResult(r, options) ==
  LET w1 == isWaiting(r) /\ options.onWaiting # "absent"
      o1 == IF w1 THEN FromNullable(Call(options, "onWaiting", r)) ELSE None
      c1 == IF w1 THEN <<"onWaiting">> ELSE <<>>
      w2 == ~o1.some /\ isInitial(r) /\ options.onInitial # "absent"
      o2 == IF o1.some THEN o1
            ELSE IF w2 THEN FromNullable(Call(options, "onInitial", <<>>))
            ELSE None
      c2 == IF w2 THEN Append(c1, "onInitial") ELSE c1
      w3 == ~o2.some /\ isSuccess(r)
      o3 == IF o2.some THEN o2
            ELSE IF w3 THEN Some(Call(options, "onSuccess", r.value))
            ELSE None
      c3 == IF w3 THEN Append(c2, "onSuccess") ELSE c2
      w4 == ~o3.some /\ isFailure(r) /\ options.onFailure # "absent"
      o4 == IF o3.some THEN o3
            ELSE IF w4 THEN Some(Call(options, "onFailure", FirstFailure(r.cause)))
            ELSE None
      c4 == IF w4 THEN Append(c3, "onFailure") ELSE c3
  IN  [out |-> IF o4.some THEN o4.v ELSE Null, calls |-> c4]

NotCalled == [out |-> Null, calls |-> <<"none">>]

Match ==
  /\ mReturn = NotCalled
  /\ mReturn' = MatchResult(mResult, mOptions)
  /\ UNCHANGED <<mResult, mOptions, mixinVars, restVars>>

(* ------------------------- the setter of useAtom ----------------------- *)

\* calls of a setter in one behaviour
MaxCalls == 3

CounterAtoms == {"a", "b"}

\* what a caller passes to the setter: a value, or the updater prev => prev + 1
NewValues == {[fn |-> FALSE, v |-> v] : v \in Values} \cup {[fn |-> TRUE, add |-> 1]}

\* a faulty setter that applies the updater to the value useAtom returned
ValueToSetStale(env, newValue, current) ==
  IF newValue.fn THEN env.v + newValue.add ELSE newValue.v

\* valueToSet of the setter; env is what the closure holds (the value read when
\* useAtom was called), current is globalRegistry.get(atom) at the call
ValueToSet(env, newValue, current) ==
  IF newValue.fn THEN current + newValue.add ELSE newValue.v

\* const [value, setValue] = this.useAtom(atom)
CounterUseAtom(atom) ==
  /\ hook[atom] # [set |-> TRUE, v |-> count[atom]]
  /\ hook' = [hook EXCEPT ![atom] = [set |-> TRUE, v |-> count[atom]]]
  /\ UNCHANGED <<count, run, calls, mixinVars, matchVars, sharedVars, asyncVars,
                 serviceVars>>

\* setValue(newValue): globalRegistry.set(atom, valueToSet)
CounterSetValue(atom, newValue) ==
  /\ hook[atom].set
  /\ calls < MaxCalls
  /\ calls' = calls + 1
  /\ count' = [count EXCEPT ![atom] = ValueToSet(hook[atom], newValue, count[atom])]
  /\ run' = [run EXCEPT ![atom] =
               IF newValue.fn THEN [@ EXCEPT !.n = @ + 1]
               ELSE [base |-> newValue.v, n |-> 0]]
  /\ UNCHANGED <<hook, mixinVars, matchVars, sharedVars, asyncVars, serviceVars>>

InitCounterVars ==
  /\ count = [a \in CounterAtoms |-> 0]
  /\ hook = [a \in CounterAtoms |-> Unset]
  /\ run = [a \in CounterAtoms |-> [base |-> 0, n |-> 0]]
  /\ calls = 0

(* ---------------------- the counter's function atom ------------------ *)

\* the least value countAtom's effect accepts
MinCount == -3

\* the values the counter's setter is called with
Inputs == {-5, -4, -3, 0}

CountError == [err |-> "CountError"]

\* a faulty effect that rejects one value fewer
CountEffectLower(newValue) ==
  IF newValue < MinCount - 1
    THEN [ok |-> FALSE, error |-> CountError]
    ELSE [ok |-> TRUE, value |-> newValue]

\* the effect of countAtom: how its run for newValue ends
CountEffect(newValue) ==
  IF newValue < MinCount
    THEN [ok |-> FALSE, error |-> CountError]
    ELSE [ok |-> TRUE, value |-> newValue]

\* the Result a function atom shows while its effect runs
WaitingFrom(r) == [r EXCEPT !.waiting = TRUE]

\* the Result a function atom shows when its effect has ended with exit
ResultOfExit(exit) ==
  IF exit.ok THEN Success(exit.value, FALSE)
  ELSE Failure([failures |-> <<exit.error>>], FALSE)

Idle == [state |-> "idle", input |-> 0]

\* setCount(newValue): registry.set on the function atom starts its effect
CountSet(newValue) ==
  /\ effectRun.state # "running"
  /\ ResultChange(WaitingFrom(result))
  /\ effectRun' = [state |-> "running", input |-> newValue]

\* the effect of the function atom ends
CountComplete ==
  /\ effectRun.state = "running"
  /\ ResultChange(ResultOfExit(CountEffect(effectRun.input)))
  /\ effectRun' = [effectRun EXCEPT !.state = "done"]

\* the handlers a render passes: onInitial and onSuccess always, onWaiting
\* and onFailure in any way
RenderOptionSets ==
  {o \in OptionSets : o.onInitial = "out" /\ o.onSuccess = "out"}

\* render: matchResult(registry.get(countAtom), options)
MatchCount(options) ==
  /\ mResult' = result
  /\ mOptions' = options
  /\ mReturn' = MatchResult(result, options)
  /\ UNCHANGED <<mixinVars, restVars>>

(* ------------------------------ TodoService --------------------------- *)

\* successful addTodo calls in one behaviour
MaxAdds == 4

\* the number of unfinished todos at which addTodo refuses
MaxUnfinished == 3

\* Partial<TodoItem> as the callers pass it: nothing, or a completed flag
Updates == {[set |-> FALSE]} \cup {[set |-> TRUE, completed |-> b] : b \in BOOLEAN}

RECURSIVE ActiveCount(_)
\* current.filter((t) => !t.completed).length
ActiveCount(list) ==
  IF list = <<>> THEN 0
  ELSE (IF Head(list).completed THEN 0 ELSE 1) + ActiveCount(Tail(list))

RECURSIVE WithoutId(_, _)
\* current.filter((t) => t.id !== id)
WithoutId(list, id) ==
  IF list = <<>> THEN <<>>
  ELSE IF Head(list).id = id THEN WithoutId(Tail(list), id)
  ELSE <<Head(list)>> \o WithoutId(Tail(list), id)

\* current.map((t) => (t.id === id ? { ...t, ...updates } : t))
WithUpdates(list, id, updates) ==
  [n \in DOMAIN list |->
     IF list[n].id = id /\ updates.set
       THEN [list[n] EXCEPT !.completed = updates.completed]
       ELSE list[n]]

NoTodoOp == [op |-> "none", ok |-> TRUE, error |-> "none", before |-> <<>>]

AddTodo ==
  /\ nextId < MaxAdds
  /\ IF ActiveCount(todos) >= MaxUnfinished
       THEN /\ todoOp' = [op |-> "addTodo", ok |-> FALSE, error |-> "MaxTodosReached",
                          before |-> todos]
            /\ UNCHANGED <<todos, nextId>>
       ELSE /\ todos' = Append(todos, [id |-> nextId + 1, completed |-> FALSE])
            /\ nextId' = nextId + 1
            /\ todoOp' = [op |-> "addTodo", ok |-> TRUE, error |-> "none",
                          before |-> todos]
  /\ UNCHANGED <<kv, keyOp, mixinVars, matchVars, sharedVars, counterVars, asyncVars>>

RemoveTodo(id) ==
  /\ todos' = WithoutId(todos, id)
  /\ todoOp' = [op |-> "removeTodo", ok |-> TRUE, error |-> "none", before |-> todos]
  /\ UNCHANGED <<nextId, kv, keyOp, mixinVars, matchVars, sharedVars, counterVars,
                 asyncVars>>

UpdateTodo(id, updates) ==
  /\ todos' = WithUpdates(todos, id, updates)
  /\ todoOp' = [op |-> "updateTodo", ok |-> TRUE, error |-> "none", before |-> todos]
  /\ UNCHANGED <<nextId, kv, keyOp, mixinVars, matchVars, sharedVars, counterVars,
                 asyncVars>>

(* --------------------------- ApiKeyLoaderService ----------------------- *)

MAX_ATTEMPTS == 3

\* validatePasskey refuses a passkey shorter than this
MinPasskeyLength == 6

\* passkeys by text and length: one too short, two long enough
Passkeys == {[text |-> "s", len |-> 5], [text |-> "p", len |-> 6],
             [text |-> "q", len |-> 7]}

ApiKeys == {"k", "m"}

\* Option of the key-value store
NoEntry == [set |-> FALSE]

Entry(v) == [set |-> TRUE, v |-> v]

\* hashPasskey: the SHA-256 digest of the text, as hex
hashPasskey(passkey) == [sha256 |-> passkey.text]

\* crypto.encrypt under the configured key
encrypt(apiKey) == [ciphertext |-> apiKey]

\* String(newCount) and parseInt(str, 10) || 0
StringOf(n) == [digits |-> n]

ParseInt(str) == str.digits

validatePasskey(passkey) == ~(passkey.len = 0 \/ passkey.len < MinPasskeyLength)

getFailedAttempts(store) ==
  IF store.attempts.set THEN ParseInt(store.attempts.v) ELSE 0

incrementFailedAttempts(store) ==
  [store EXCEPT !.attempts = Entry(StringOf(getFailedAttempts(store) + 1))]

resetFailedAttempts(store) == [store EXCEPT !.attempts = NoEntry]

clearAllData(store) == [apiKey |-> NoEntry, passkeyHash |-> NoEntry, attempts |-> NoEntry]

\* the lockout test of loadApiKey
LockedOutAbove(attempts) == attempts > MAX_ATTEMPTS

LockedOut(attempts) == attempts >= MAX_ATTEMPTS

NoRemaining == [set |-> FALSE]

KeyOp(op, passkey, ok, error, remaining) ==
  [op |-> op, passkey |-> passkey, ok |-> ok, error |-> error,
   remaining |-> remaining, before |-> kv]

NoKeyOp ==
  [op |-> "none", passkey |-> [text |-> "", len |-> 0], ok |-> TRUE, error |-> "none",
   remaining |-> NoRemaining, before |-> clearAllData(<<>>)]

\* saveApiKey(apiKey, passkey); cryptoOk: whether crypto.encrypt succeeds
SaveApiKey(apiKey, passkey, cryptoOk) ==
  /\ IF ~validatePasskey(passkey)
       THEN /\ keyOp' = KeyOp("saveApiKey", passkey, FALSE, "PasskeyError", NoRemaining)
            /\ UNCHANGED kv
     ELSE IF ~cryptoOk
       THEN /\ keyOp' = KeyOp("saveApiKey", passkey, FALSE, "StorageError", NoRemaining)
            /\ UNCHANGED kv
     ELSE /\ kv' = resetFailedAttempts(
                     [kv EXCEPT !.apiKey = Entry(encrypt(apiKey)),
                                !.passkeyHash = Entry(hashPasskey(passkey))])
          /\ keyOp' = KeyOp("saveApiKey", passkey, TRUE, "none", NoRemaining)
  /\ UNCHANGED <<todos, nextId, todoOp, mixinVars, matchVars, sharedVars, counterVars,
                 asyncVars>>

\* loadApiKey(passkey); cryptoOk: whether crypto.decrypt succeeds
LoadApiKey(passkey, cryptoOk) ==
  /\ IF ~validatePasskey(passkey)
       THEN /\ keyOp' = KeyOp("loadApiKey", passkey, FALSE, "PasskeyError", NoRemaining)
            /\ UNCHANGED kv
     ELSE IF LockedOut(getFailedAttempts(kv))
       THEN /\ kv' = clearAllData(kv)
            /\ keyOp' = KeyOp("loadApiKey", passkey, FALSE, "PasskeyError", Entry(0))
     ELSE IF ~kv.apiKey.set \/ ~kv.passkeyHash.set
       THEN /\ keyOp' = KeyOp("loadApiKey", passkey, FALSE, "StorageError", NoRemaining)
            /\ UNCHANGED kv
     ELSE IF hashPasskey(passkey) # kv.passkeyHash.v
       THEN /\ kv' = incrementFailedAttempts(kv)
            /\ keyOp' = KeyOp("loadApiKey", passkey, FALSE, "PasskeyError",
                              Entry(MAX_ATTEMPTS - getFailedAttempts(kv')))
     ELSE /\ kv' = resetFailedAttempts(kv)
          /\ keyOp' = IF cryptoOk
                        THEN KeyOp("loadApiKey", passkey, TRUE, "none", NoRemaining)
                        ELSE KeyOp("loadApiKey", passkey, FALSE, "StorageError",
                                   NoRemaining)
  /\ UNCHANGED <<todos, nextId, todoOp, mixinVars, matchVars, sharedVars, counterVars,
                 asyncVars>>

\* clearApiKey = clearAllData
ClearApiKey ==
  /\ kv' = clearAllData(kv)
  /\ keyOp' = KeyOp("clearApiKey", NoKeyOp.passkey, TRUE, "none", NoRemaining)
  /\ UNCHANGED <<todos, nextId, todoOp, mixinVars, matchVars, sharedVars, counterVars,
                 asyncVars>>

InitServiceVars ==
  /\ todos = <<>>
  /\ nextId = 0
  /\ todoOp = NoTodoOp
  /\ kv = clearAllData(<<>>)
  /\ keyOp = NoKeyOp

(* ----------------- components sharing registries -------------------- *)

Instances == {"p", "q"}

Classes == {"K1", "K2"}

\* the process-wide default registry and two registries made by Registry.make
Registries == {"default", "r1", "r2"}

\* what a class passes as AtomMixin's registry parameter ("none": omitted)
RegistryArgs == {"none", "r1"}

\* the atom the components share
SharedAtom == "a"

\* a faulty mixin that drops its registry parameter
GlobalRegistryDefaultOnly(c) == "default"

\* a faulty mixin that makes a registry of its own for a class that passes none
GlobalRegistryPerClass(c) ==
  IF classRegistry[c] = "none"
    THEN (IF c = "K1" THEN "default" ELSE "r2")
    ELSE classRegistry[c]

\* const globalRegistry = registry ?? defaultGlobalRegistry, for class c
GlobalRegistry(c) ==
  IF classRegistry[c] = "none" THEN "default" ELSE classRegistry[c]

\* the registry the methods of instance i act on
RegistryOfEl(i) == GlobalRegistry(classOf[i])

\* a class declares no field, or one field bound to the shared atom under key "x"
ClassBindingLists ==
  {bs \in BindingLists({SharedAtom}, {<<"x">>}) : Len(bs) <= 1}

\* an instance after construction
NewEl ==
  [attached |-> FALSE,
   subscribed |-> {},              \* the atoms this[ATOM_SUBSCRIPTIONS] has an entry for
   bound |-> {},                   \* the field keys whose subscription is live
   reactivityKeys |-> EmptyReactivityKeys,
   fields |-> [k \in {FieldKeys[n] : n \in DOMAIN FieldKeys} |-> Unset]]

NoSharedOp == [op |-> "none", by |-> "none", registry |-> "none", value |-> 0,
               keys |-> <<>>, notified |-> {}]

NoRefreshes == [g \in Registries |-> NoRefresh]

\* subscribeToAtom of instance e for binding b, on a registry whose value is v
RECURSIVE ElSubscribeToAtoms(_, _, _)
ElSubscribeToAtoms(bs, e, v) ==
  IF bs = <<>> THEN e
  ELSE LET b == Head(bs)
       IN  ElSubscribeToAtoms(Tail(bs),
             [e EXCEPT
                !.subscribed = @ \cup {b.atom},
                !.bound = @ \cup {b.key},
                !.reactivityKeys =
                   IF Len(b.reactivityKeys) > 0
                     THEN RegisterReactivityKeys(@, b.atom, b.reactivityKeys)
                     ELSE @,
                !.fields = UpdateProperty(@, b.key, v)],
             v)

\* connectedCallback of instance i
ElAttach(i) ==
  /\ ~els[i].attached
  /\ els' = [els EXCEPT ![i] =
               [ElSubscribeToAtoms(classBindings[classOf[i]], els[i],
                                   caches[RegistryOfEl(i)])
                  EXCEPT !.attached = TRUE]]
  /\ refreshes' = NoRefreshes
  /\ sharedOp' = [NoSharedOp EXCEPT !.op = "attach", !.by = i,
                                    !.registry = RegistryOfEl(i)]
  /\ UNCHANGED <<classOf, classRegistry, classBindings, caches, mixinVars,
                 matchVars, counterVars, asyncVars, serviceVars>>

\* disconnectedCallback of instance i
ElDetach(i) ==
  /\ els[i].attached
  /\ els' = [els EXCEPT ![i].attached = FALSE,
                        ![i].subscribed = {},
                        ![i].bound = {},
                        ![i].reactivityKeys = EmptyReactivityKeys]
  /\ refreshes' = NoRefreshes
  /\ sharedOp' = [NoSharedOp EXCEPT !.op = "detach", !.by = i,
                                    !.registry = RegistryOfEl(i)]
  /\ UNCHANGED <<classOf, classRegistry, classBindings, caches, mixinVars,
                 matchVars, counterVars, asyncVars, serviceVars>>

\* the instances whose field handler registry g invokes when the shared atom changes
Subscribers(g) == {j \in Instances : RegistryOfEl(j) = g /\ els[j].bound # {}}

\* registry g sets the shared atom to v and notifies; e is the instances before
Notify(e, g, v) ==
  [j \in Instances |->
     IF j \in Subscribers(g)
       THEN [e[j] EXCEPT !.fields =
               [k \in DOMAIN @ |->
                  IF k \in e[j].bound THEN [set |-> TRUE, v |-> v] ELSE @[k]]]
       ELSE e[j]]

\* instance i calls the setter of useAtomSet(atom) (or of useAtom) with v
ElSet(i, v) ==
  /\ v # caches[RegistryOfEl(i)]
  /\ caches' = [caches EXCEPT ![RegistryOfEl(i)] = v]
  /\ els' = Notify([els EXCEPT ![i].subscribed = @ \cup {SharedAtom}],
                   RegistryOfEl(i), v)
  /\ refreshes' = NoRefreshes
  /\ sharedOp' = [NoSharedOp EXCEPT !.op = "set", !.by = i,
                                    !.registry = RegistryOfEl(i), !.value = v,
                                    !.notified = Subscribers(RegistryOfEl(i))]
  /\ UNCHANGED <<classOf, classRegistry, classBindings, mixinVars, matchVars,
                 counterVars, asyncVars, serviceVars>>

\* code outside the components calls g.set(atom, v)
DirectSet(g, v) ==
  /\ v # caches[g]
  /\ caches' = [caches EXCEPT ![g] = v]
  /\ els' = Notify(els, g, v)
  /\ refreshes' = NoRefreshes
  /\ sharedOp' = [NoSharedOp EXCEPT !.op = "directSet", !.registry = g,
                                    !.value = v, !.notified = Subscribers(g)]
  /\ UNCHANGED <<classOf, classRegistry, classBindings, mixinVars, matchVars,
                 counterVars, asyncVars, serviceVars>>

\* instance i calls invalidate(keys)
ElInvalidate(i, keys) ==
  /\ refreshes' = [NoRefreshes EXCEPT ![RegistryOfEl(i)] =
                     InvalidateKeys(els[i].reactivityKeys, keys, NoRefresh)]
  /\ sharedOp' = [NoSharedOp EXCEPT !.op = "invalidate", !.by = i,
                                    !.registry = RegistryOfEl(i), !.keys = keys]
  /\ UNCHANGED <<classOf, classRegistry, classBindings, caches, els, mixinVars,
                 matchVars, counterVars, asyncVars, serviceVars>>

\* no components
InitNoShared ==
  /\ classOf = [i \in Instances |-> "K1"]
  /\ classRegistry = [c \in Classes |-> "none"]
  /\ classBindings = [c \in Classes |-> <<>>]
  /\ caches = [g \in Registries |-> 0]
  /\ els = [i \in Instances |-> NewEl]
  /\ refreshes = NoRefreshes
  /\ sharedOp = NoSharedOp
  /\ InitCounterVars
  /\ effectRun = Idle
  /\ InitServiceVars

(* --------------------------- specifications --------------------------- *)

InitMixin ==
  /\ attached = FALSE
  /\ subs = [id \in Handles |-> Free]
  /\ atomSubscriptions = EmptySubscriptions
  /\ reactivityKeys = EmptyReactivityKeys
  /\ cache = [a \in Atoms |-> 0]
  /\ result = Initial(FALSE)
  /\ fields = [k \in {FieldKeys[i] : i \in DOMAIN FieldKeys} |-> Unset]
  /\ invoked = {}
  /\ refreshed = NoRefresh
  /\ mounts = [a \in AllAtoms |-> FALSE]
  /\ promises = <<>>
  /\ changes = 0
  /\ lastOp = NoOp

InitMatch ==
  /\ mResult = Initial(FALSE)
  /\ mOptions = [onInitial |-> "absent", onWaiting |-> "absent",
                 onSuccess |-> "out", onFailure |-> "absent"]
  /\ mReturn = NotCalled

\* one instance of a class with any binding list, attached and detached at
\* will, its accessors called in any state, the atoms written by anyone
Init ==
  bindings \in BindingLists(LifeAtoms, {<<>>}) /\ InitMixin /\ InitMatch /\ InitNoShared

Next ==
  \/ Attach
  \/ Detach
  \/ \E a \in LifeAtoms : UseAtom(a)
  \/ \E a \in LifeAtoms : UseAtomValue(a)
  \/ \E a \in LifeAtoms : UseAtomSet(a)
  \/ \E a \in LifeAtoms : UseAtomRefresh(a)
  \/ \E a \in LifeAtoms : UseAtomMount(a, <<>>)
  \/ \E s \in BOOLEAN : UseAtomPromise(s)

Spec == Init /\ [][Next]_vars

\* one instance of a class with any binding list, the bound atoms written by anyone
NextNotify ==
  \/ Attach
  \/ Detach
  \/ \E a \in LifeAtoms, v \in Values : RegistrySet(a, v)

SpecNotify == Init /\ [][NextNotify]_vars

\* one instance whose bindings and mounts carry reactivity keys
InitTags ==
  bindings \in BindingLists(Atoms, {<<"x">>}) /\ InitMixin /\ InitMatch /\ InitNoShared

NextTags ==
  \/ Attach
  \/ Detach
  \/ \E a \in Atoms, keys \in {<<"x">>, <<"y">>} : UseAtomMount(a, keys)
  \/ \E keys \in KeyLists : Invalidate(keys)

SpecTags == InitTags /\ [][NextTags]_vars

\* the values the Result atom takes while a promise bridges it
BridgeResults ==
  {Initial(FALSE), Initial(TRUE), Success(0, FALSE), Success(1, FALSE),
   Success(0, TRUE), Failure([failures |-> <<[err |-> "e1"]>>], FALSE),
   Failure([failures |-> <<[err |-> "e2"], [err |-> "e1"]>>], TRUE),
   Failure([failures |-> <<>>], FALSE)}

\* an instance without declared bindings that bridges the Result atom to promises
InitPromise == bindings = <<>> /\ InitMixin /\ InitMatch /\ InitNoShared

NextPromise ==
  \/ \E s \in BOOLEAN : UseAtomPromise(s)
  \/ \E r \in BridgeResults : ResultChange(r) /\ UNCHANGED asyncVars
  \/ \E i \in DOMAIN promises : Timeout(i)

SpecPromise == InitPromise /\ [][NextPromise]_vars

\* matchResult applied once to any Result and any set of handlers
InitMatchAny ==
  /\ bindings = <<>>
  /\ InitMixin
  /\ mResult \in Results
  /\ mOptions \in OptionSets
  /\ mReturn = NotCalled
  /\ InitNoShared

NextMatch == Match

SpecMatch == InitMatchAny /\ [][NextMatch]_vars

\* two component instances, of one class or of two, each class built on the
\* default registry or on r1, and code that writes through any registry
InitShared ==
  /\ bindings = <<>>
  /\ InitMixin
  /\ InitMatch
  /\ classOf \in {f \in [Instances -> Classes] : f["p"] = "K1"}
  /\ classRegistry \in [Classes -> RegistryArgs]
  /\ classBindings \in [Classes -> ClassBindingLists]
  /\ caches = [g \in Registries |-> 0]
  /\ els = [i \in Instances |-> NewEl]
  /\ refreshes = NoRefreshes
  /\ sharedOp = NoSharedOp
  /\ InitCounterVars
  /\ effectRun = Idle
  /\ InitServiceVars

NextShared ==
  \/ \E i \in Instances : ElAttach(i)
  \/ \E i \in Instances : ElDetach(i)
  \/ \E i \in Instances, v \in Values : ElSet(i, v)
  \/ \E g \in Registries, v \in Values : DirectSet(g, v)
  \/ \E i \in Instances, keys \in KeyLists : ElInvalidate(i, keys)

SpecShared == InitShared /\ [][NextShared]_vars

\* writable atoms with initial value 0, read and written through useAtom
InitCounter == bindings = <<>> /\ InitMixin /\ InitMatch /\ InitNoShared

NextCounter ==
  \/ \E a \in CounterAtoms : CounterUseAtom(a)
  \/ \E a \in CounterAtoms, nv \in NewValues : CounterSetValue(a, nv)

SpecCounter == InitCounter /\ [][NextCounter]_vars

\* a component whose field is bound to the counter's function atom, which
\* shows Initial or its initial value before the first run
InitAsync ==
  /\ bindings \in BindingLists({ResultAtom}, {<<>>})
  /\ attached = FALSE
  /\ subs = [id \in Handles |-> Free]
  /\ atomSubscriptions = EmptySubscriptions
  /\ reactivityKeys = EmptyReactivityKeys
  /\ cache = [a \in Atoms |-> 0]
  /\ result \in {Initial(FALSE), Success(0, FALSE)}
  /\ fields = [k \in {FieldKeys[i] : i \in DOMAIN FieldKeys} |-> Unset]
  /\ invoked = {}
  /\ refreshed = NoRefresh
  /\ mounts = [a \in AllAtoms |-> FALSE]
  /\ promises = <<>>
  /\ changes = 0
  /\ lastOp = NoOp
  /\ InitMatch
  /\ InitNoShared

NextAsync ==
  \/ Attach
  \/ Detach
  \/ \E n \in Inputs : CountSet(n)
  \/ CountComplete
  \/ \E options \in RenderOptionSets : MatchCount(options)

SpecAsync == InitAsync /\ [][NextAsync]_vars

\* key lists that name a key twice or name two keys
RepeatKeyLists == {<<"x", "x">>, <<"x", "y">>, <<"y", "x">>}

\* one instance that mounts atoms under one key or two and invalidates with
\* key lists of one or two keys
InitInvalidate ==
  bindings \in BindingLists({"a"}, {<<"x">>}) /\ InitMixin /\ InitMatch /\ InitNoShared

NextInvalidate ==
  \/ Attach
  \/ Detach
  \/ \E a \in LifeAtoms, keys \in {<<"x">>, <<"y">>, <<"x", "y">>} : UseAtomMount(a, keys)
  \/ \E keys \in KeyLists \cup RepeatKeyLists : Invalidate(keys)

SpecInvalidate == InitInvalidate /\ [][NextInvalidate]_vars

\* a handler that calls the function atom's setter and bridges its Result to
\* a promise, in either order
InitAwait == InitAsync /\ bindings = <<>>

NextAwait ==
  \/ \E n \in Inputs : CountSet(n)
  \/ CountComplete
  \/ \E s \in BOOLEAN : UseAtomPromise(s)
  \/ \E i \in DOMAIN promises : Timeout(i)

SpecAwait == InitAwait /\ [][NextAwait]_vars

\* the todo service on its own: ids are the ones handed out so far or not
InitTodos == InitCounter

TodoIds == 1..MaxAdds

NextTodos ==
  \/ AddTodo
  \/ \E id \in TodoIds : RemoveTodo(id)
  \/ \E id \in TodoIds, u \in Updates : UpdateTodo(id, u)

SpecTodos == InitTodos /\ [][NextTodos]_vars

\* the api-key loader on its own, over an empty store
InitApiKey == InitCounter

NextApiKey ==
  \/ \E k \in ApiKeys, p \in Passkeys, ok \in BOOLEAN : SaveApiKey(k, p, ok)
  \/ \E p \in Passkeys, ok \in BOOLEAN : LoadApiKey(p, ok)
  \/ ClearApiKey

SpecApiKey == InitApiKey /\ [][NextApiKey]_vars

(* ------------------------------- claims ------------------------------- *)

Used(id) == subs[id] # Free

AccessorOps == {"useAtom", "useAtomValue", "useAtomSet", "useAtomRefresh",
                "useAtomPromise"}

\* C1: right after disconnectedCallback every subscription the instance made
\* since it was attached (declared field bindings, accessors, useAtomMount)
\* has had its unsubscribe function called exactly once.
C1_ReleasedOnDetach ==
  lastOp.op = "detach" =>
    \A id \in Handles :
      (Used(id) /\ subs[id].fresh /\ subs[id].kind \in {"field", "auto", "mount"})
        => subs[id].released = 1

\* C2: while the instance is detached every subscription that
\* _subscribeToAtoms made has been released exactly once, and no handler of
\* such a subscription runs.
C2_SubscriptionSymmetry ==
  ~attached =>
    \A id \in Handles :
      (Used(id) /\ subs[id].kind = "field")
        => (subs[id].released = 1 /\ id \notin invoked)

Settling(r, suspend) == ~isInitial(r) /\ ~(suspend /\ isWaiting(r))

RECURSIVE FirstOutcome(_, _)
FirstOutcome(seen, suspend) ==
  IF seen = <<>> THEN Pending
  ELSE IF Settling(Head(seen), suspend)
    THEN IF isSuccess(Head(seen))
           THEN Resolved(Head(seen).value)
           ELSE Rejected(FirstFailure(Head(seen).cause))
    ELSE FirstOutcome(Tail(seen), suspend)

\* C4: the outcome of a promise of useAtomPromise is decided by the first
\* result handed to the bridge that is a Success or a Failure (and, under
\* suspendOnWaiting, not waiting): resolved with that Success's value or
\* rejected with that Failure's error; it is pending while there is none,
\* and no later result changes it.
C4_SettlesWithFirstOutcome ==
  \A i \in DOMAIN promises :
    promises[i].outcome = FirstOutcome(promises[i].seen, promises[i].suspendOnWaiting)

C4_Witness ==
  \E i \in DOMAIN promises :
    /\ promises[i].suspendOnWaiting
    /\ promises[i].outcome = Resolved(1)
    /\ Len(promises[i].seen) = 2
    /\ isSuccess(promises[i].seen[1])
    /\ isWaiting(promises[i].seen[1])

\* C5: once the 30 s timer of a promise has fired without the bridge having
\* seen a settling result, the promise is rejected.
C5_TimeoutRejects ==
  \A i \in DOMAIN promises :
    (promises[i].timerFired
       /\ FirstOutcome(promises[i].seen, promises[i].suspendOnWaiting) = Pending)
      => promises[i].outcome.kind = "rejected"

\* C6: once the timer of a promise has fired its bridging subscription is
\* released, whatever the promise's outcome, and its handler does not run.
C6_BridgeTornDown ==
  \A i \in DOMAIN promises :
    promises[i].timerFired =>
      (~Live(subs, promises[i].sub) /\ promises[i].sub \notin invoked)

C6_Witness ==
  \E i \in DOMAIN promises :
    /\ promises[i].timerFired
    /\ promises[i].outcome # Pending
    /\ lastOp.op = "change"
    /\ promises[i].seen[Len(promises[i].seen)] # result

Matched == mReturn # NotCalled

Called(h) == \E k \in DOMAIN mReturn.calls : mReturn.calls[k] = h

\* C7: matchResult on a waiting Success with onWaiting supplied calls
\* onWaiting and does not call onSuccess, whatever onWaiting returns.
C7_WaitingPrecedence ==
  (Matched /\ isWaiting(mResult) /\ isSuccess(mResult)
     /\ mOptions.onWaiting # "absent")
    => (Called("onWaiting") /\ ~Called("onSuccess"))

\* the handler the Result precedence names for r
Applicable(r, options) ==
  IF isWaiting(r) /\ options.onWaiting # "absent" THEN "onWaiting"
  ELSE IF isInitial(r) THEN "onInitial"
  ELSE IF isSuccess(r) THEN "onSuccess"
  ELSE "onFailure"

\* C8: matchResult calls at most one handler, the applicable one when it is
\* supplied, and returns what that handler returned (null when it is absent).
C8_OneHandler ==
  Matched =>
    LET h == Applicable(mResult, mOptions)
    IN  IF mOptions[h] = "absent"
          THEN mReturn.calls = <<>> /\ mReturn.out = Null
          ELSE /\ mReturn.calls = <<h>>
               /\ mOptions[h] = "null" => mReturn.out = Null
               /\ mOptions[h] = "out" => mReturn.out.by = h

\* C10: invalidate(keys) calls refresh on exactly the atoms registered under
\* one of the keys: with a and b under "x" and c under "y", invalidate(["x"])
\* refreshes a and b and not c; a key with no atoms refreshes nothing.
C10_TagFanOut ==
  lastOp.op = "invalidate" =>
    \A a \in AllAtoms :
      refreshed[a] >= 1 <=>
        \E k \in DOMAIN lastOp.keys : a \in reactivityKeys[lastOp.keys[k]]

C10_Witness ==
  /\ lastOp.op = "invalidate"
  /\ lastOp.keys = <<"x">>
  /\ reactivityKeys["x"] = {"a", "b"}
  /\ reactivityKeys["y"] = {"c"}
  /\ refreshed["a"] = 1
  /\ refreshed["b"] = 1
  /\ refreshed["c"] = 0

\* the instance's live subscriptions that registered atom a under key k
Registering(a, k) ==
  {id \in Handles :
     /\ Live(subs, id)
     /\ subs[id].atom = a
     /\ \E n \in DOMAIN subs[id].tags : subs[id].tags[n] = k}

\* C12: an atom is in a key's set of the instance's index exactly while a
\* live subscription of the instance registered it under that key: it stays
\* while one is live and is gone once the last one is released.
C12_SubscriptionScoped ==
  \A a \in AllAtoms, k \in Tags :
    a \in reactivityKeys[k] <=> Registering(a, k) # {}

\* the atoms some component on registry g has registered under key k
RegisteredIn(g, k) ==
  UNION {els[j].reactivityKeys[k] : j \in {n \in Instances : RegistryOfEl(n) = g}}

\* C11: invalidate(keys) called on one component refreshes, in the caller's
\* registry, every atom that a component on that registry has registered
\* under one of the keys, the caller or another component.
C11_InvalidateAcrossComponents ==
  sharedOp.op = "invalidate" =>
    \A a \in AllAtoms :
      (\E n \in DOMAIN sharedOp.keys : a \in RegisteredIn(sharedOp.registry, sharedOp.keys[n]))
        => refreshes[sharedOp.registry][a] >= 1

\* the registry the class of instance i was built with
BuiltWith(i) ==
  IF classRegistry[classOf[i]] = "none" THEN "default" ELSE classRegistry[classOf[i]]

IsBound(i) == els[i].attached /\ els[i].bound # {}

\* the bound fields of instance i hold value v
Shows(i, v) == \A k \in els[i].bound : els[i].fields[k] = [set |-> TRUE, v |-> v]

\* the bound fields of an attached component hold the value of the registry
\* its class was built with, and a write notifies components of that registry only
FieldsFollowOwnRegistry ==
  /\ \A i \in Instances : IsBound(i) => Shows(i, caches[BuiltWith(i)])
  /\ sharedOp.op \in {"set", "directSet"} =>
       /\ caches[sharedOp.registry] = sharedOp.value
       /\ \A j \in sharedOp.notified : BuiltWith(j) = sharedOp.registry

\* a registry's value changes only by a write made through that registry
WritesStayInRegistry ==
  \A g \in Registries :
    caches'[g] # caches[g] =>
      /\ caches'[g] = sharedOp'.value
      /\ \/ sharedOp'.op = "directSet" /\ sharedOp'.registry = g
         \/ sharedOp'.op = "set" /\ BuiltWith(sharedOp'.by) = g

\* C13: each registry holds the last value written through it, whatever is
\* written through the others, and a component built with AtomMixin(base, r1)
\* shows r1's value: it observes no write made through another registry.
C13_RegistryIsolation == []FieldsFollowOwnRegistry /\ [][WritesStayInRegistry]_vars

C13_Witness ==
  /\ sharedOp.op = "directSet"
  /\ sharedOp.registry \in {"default", "r2"}
  /\ sharedOp.value = 1
  /\ classRegistry["K1"] = "r1"
  /\ IsBound("p")
  /\ Shows("p", 0)
  /\ caches["r1"] = 0

\* C14: a write made through the setter of one instance of a class built on
\* a scoped registry does not reach another instance of that class.
C14_InstancesIsolated ==
  (sharedOp.op = "set" /\ classRegistry[classOf[sharedOp.by]] # "none") =>
    \A j \in Instances :
      (j # sharedOp.by /\ classOf[j] = classOf[sharedOp.by] /\ IsBound(j))
        => (j \notin sharedOp.notified /\ ~Shows(j, sharedOp.value))

\* C15: after a component on the default registry writes the atom through
\* its setter, every attached component on the default registry that binds
\* the atom shows the written value, and the default registry holds it.
C15_DefaultRegistryShared ==
  (sharedOp.op = "set" /\ classRegistry[classOf[sharedOp.by]] = "none") =>
    /\ caches["default"] = sharedOp.value
    /\ \A j \in Instances :
         (classRegistry[classOf[j]] = "none" /\ IsBound(j)) => Shows(j, sharedOp.value)

C15_Witness ==
  /\ sharedOp.op = "set"
  /\ sharedOp.by = "p"
  /\ sharedOp.value = 1
  /\ classOf["q"] = "K2"
  /\ classRegistry = [c \in Classes |-> "none"]
  /\ IsBound("q")
  /\ Shows("q", 1)

\* C17: n sequential setter calls with the updater prev => prev + 1 leave the
\* atom n above the value it was last set to (n when that was the initial 0):
\* each call builds on the value the call before it wrote.
C17_NoLostUpdate ==
  \A a \in CounterAtoms : count[a] = run[a].base + run[a].n

C17_Witness ==
  /\ run["a"] = [base |-> 0, n |-> MaxCalls]
  /\ count["a"] = MaxCalls
  /\ hook["a"] = [set |-> TRUE, v |-> 0]

\* the run of the effect for an input below -3 has ended
RejectedRunDone == effectRun.state = "done" /\ effectRun.input < -3

\* C20: once the run of countAtom's effect for an input below -3 has ended,
\* the atom's value is a Failure carrying the CountError, an attached
\* component's bound field holds that Failure, and matchResult on it with
\* onFailure supplied calls onFailure with the error and returns its output.
C20_FailureShown ==
  RejectedRunDone =>
    /\ result = Failure([failures |-> <<CountError>>], FALSE)
    /\ attached =>
         \A n \in DOMAIN bindings :
           fields[bindings[n].key] = [set |-> TRUE, v |-> result]
    /\ (Matched /\ mResult = result /\ mOptions.onFailure # "absent") =>
         /\ mReturn.calls = <<"onFailure">>
         /\ mReturn.out = Call(mOptions, "onFailure", CountError)

C20_Witness ==
  /\ effectRun = [state |-> "done", input |-> -5]
  /\ isFailure(result)
  /\ attached
  /\ Len(bindings) = 1
  /\ fields["f1"] = [set |-> TRUE, v |-> result]
  /\ mResult = result
  /\ mReturn = [out |-> [by |-> "onFailure", arg |-> CountError],
                calls |-> <<"onFailure">>]

\* the live subscriptions the instance made, the promise bridges aside
Owned == {id \in Handles : Live(subs, id) /\ subs[id].kind # "bridge"}

\* C21: while the instance is attached every declared field holds the
\* registry's current value of its atom: attach writes it, and each change
\* of the atom runs the handlers of the field subscriptions made by that attach.
C21_FieldFollowsAtom ==
  attached =>
    /\ \A n \in DOMAIN bindings :
         fields[bindings[n].key] = [set |-> TRUE, v |-> cache[bindings[n].atom]]
    /\ lastOp.op \in {"attach", "set"} =>
         \A id \in Owned :
           (subs[id].fresh /\ (lastOp.op = "set" => subs[id].atom = lastOp.atom))
             => id \in invoked

C21_Witness ==
  /\ attached
  /\ lastOp.op = "set"
  /\ Len(bindings) = 2
  /\ bindings[1].atom # bindings[2].atom
  /\ cache[bindings[1].atom] = 1
  /\ fields["f1"] = [set |-> TRUE, v |-> 1]
  /\ fields["f2"] = [set |-> TRUE, v |-> 0]

\* C22: right after every attach the instance owns exactly one live
\* subscription per declared binding, each made by that attach.
C22_SameSubscriptionsEachCycle ==
  lastOp.op = "attach" =>
    /\ Cardinality(Owned) = Len(bindings)
    /\ \A id \in Owned : subs[id].fresh /\ subs[id].kind = "field"

\* C24: every live subscription of the instance is the one its table names
\* for the atom: no handle is dropped from the table before it is called.
C24_TableHoldsEveryHandle ==
  \A id \in Owned : atomSubscriptions[subs[id].atom] = id

\* C25: a detached instance owns no live subscription.
C25_DetachedOwnsNothing == ~attached => Owned = {}

\* C27: after detach no atom is left mounted by the instance.
C27_MountsUndone == lastOp.op = "detach" => \A a \in AllAtoms : ~mounts[a]

\* C28: after useAtomMount(atom, { reactivityKeys }) the atom is mounted and
\* registered under every key given, whether or not the instance was
\* subscribed to the atom before.
C28_MountRegistersKeys ==
  lastOp.op = "useAtomMount" =>
    /\ mounts[lastOp.atom]
    /\ \A n \in DOMAIN lastOp.keys : lastOp.atom \in reactivityKeys[lastOp.keys[n]]

\* C23: invalidate(keys) calls refresh exactly once on each atom registered
\* under one of the keys and on no other atom, also when an atom is under
\* several of the keys or a key is named twice.
C23_RefreshedOnce ==
  lastOp.op = "invalidate" =>
    \A a \in AllAtoms :
      refreshed[a] =
        IF \E n \in DOMAIN lastOp.keys : a \in reactivityKeys[lastOp.keys[n]]
          THEN 1 ELSE 0

\* how the promise of a run of countAtom's effect for the current input ends
RunOutcome ==
  LET exit == CountEffect(effectRun.input)
  IN  IF exit.ok THEN Resolved(exit.value) ELSE Rejected(exit.error)

\* C26: a promise made by useAtomPromise with default options while the run
\* started by the setter is in progress is pending until that run ends and
\* then has that run's outcome; it never has the value of an earlier run.
C26_AwaitsStartedRun ==
  \A i \in DOMAIN promises :
    (~promises[i].suspendOnWaiting /\ isWaiting(promises[i].seen[1])) =>
      \/ promises[i].outcome = Pending /\ effectRun.state = "running"
      \/ promises[i].outcome = RunOutcome /\ effectRun.state = "done"

\* C29: in TodoService the number of unfinished todos never exceeds 3, and an
\* addTodo called with 3 todos unfinished fails with MaxTodosReached and
\* leaves the list as it was.
C29_AtMostThreeUnfinished ==
  /\ ActiveCount(todos) <= MaxUnfinished
  /\ (todoOp.op = "addTodo" /\ ActiveCount(todoOp.before) >= MaxUnfinished) =>
       /\ ~todoOp.ok
       /\ todoOp.error = "MaxTodosReached"
       /\ todos = todoOp.before

Attempts == getFailedAttempts(kv)

AttemptsBefore == getFailedAttempts(keyOp.before)

Loaded == keyOp.op = "loadApiKey"

\* the passkey of the last call against the hash stored before it
RightPasskey ==
  keyOp.before.passkeyHash.set /\ hashPasskey(keyOp.passkey) = keyOp.before.passkeyHash.v

WrongPasskey ==
  keyOp.before.passkeyHash.set /\ hashPasskey(keyOp.passkey) # keyOp.before.passkeyHash.v

ClearedWithNoneLeft ==
  /\ kv = clearAllData(kv)
  /\ ~keyOp.ok
  /\ keyOp.error = "PasskeyError"
  /\ keyOp.remaining = Entry(0)

\* the counter stays in range, goes up by one on a wrong passkey of valid
\* length and back to 0 on the right one
CounterSteps ==
  /\ Attempts \in 0..MAX_ATTEMPTS
  /\ (Loaded /\ validatePasskey(keyOp.passkey) /\ WrongPasskey
        /\ AttemptsBefore < MAX_ATTEMPTS) =>
       /\ Attempts = AttemptsBefore + 1
       /\ keyOp.remaining = Entry(MAX_ATTEMPTS - Attempts)
  /\ (Loaded /\ validatePasskey(keyOp.passkey) /\ RightPasskey
        /\ AttemptsBefore < MAX_ATTEMPTS) =>
       Attempts = 0

================================================================
